---- MODULE Spec2Model ----
(***************************************************************************)
(* Model of the user-identity reconciliation and CRUD boundary of          *)
(* what_to_cook: app/user/user.py, app/user/schema.py, app/auth/auth.py.   *)
(*                                                                         *)
(* The local user table is the set `store`; the identity provider and the  *)
(* persistence layer are collaborators whose outcomes (success or raise)   *)
(* are inputs of the handlers.  Python strings that the code splits are    *)
(* sequences of one-character strings.                                     *)
(***************************************************************************)
EXTENDS Integers, Sequences, FiniteSets, TLC

VARIABLES store, nextId, req, resp, signedIn, pc, loc

vars == <<store, nextId, req, resp, signedIn, pc, loc>>

(***************************************************************************)
(* Bounds of the model.                                                    *)
(***************************************************************************)
MaxId == 3
NumProcs == 2

Procs == 1..NumProcs

(***************************************************************************)
(* Input domains.                                                          *)
(***************************************************************************)
Identities == { [id |-> "X", email |-> "a@x.com"],
                [id |-> "Y", email |-> "b@x.com"] }

Uids == {"X", "Y"}

\* the emails of the identities, and one that no identity has
Emails == {"a@x.com", "b@x.com", "c@x.com"}

IdentityEmails == {i.email : i \in Identities}

Tokens == {"bad"} \cup Uids

Absent == <<"<absent>">>
Empty == <<>>
Blank == <<" ">>
AdaL == <<"A", "d", "a", " ", "L">>
GraH == <<"G", "r", "a", " ", "H">>
Linus == <<"L", "i", "n", "u", "s">>
New == <<"N", "e", "w">>
Tommy == <<"T", "o", "m", "m", "y">>

\* first names of sign-up requests and of update bodies
SignUpNames == {Tommy}

BodyNames == {New}

Metadatas == [ full_name : {Absent, Empty, Blank, AdaL},
               name : {Absent, GraH},
               given_name : {Absent, Linus} ]

None == [none |-> TRUE]

(***************************************************************************)
(* Python helpers.                                                         *)
(***************************************************************************)
\* str(n) for the small non-negative integers used as internal ids
Digits == <<"1", "2", "3", "4", "5", "6", "7", "8", "9">>

ToStr(n) == IF n = 0 THEN "0" ELSE Digits[n]

\* bool(s) of a str: non-empty
Truthy(s) == Len(s) > 0

RECURSIVE LStrip(_)
LStrip(s) == IF s = <<>> THEN <<>>
             ELSE IF Head(s) = " " THEN LStrip(Tail(s)) ELSE s

RECURSIVE TakeWord(_)
TakeWord(s) == IF s = <<>> \/ Head(s) = " " THEN <<>>
               ELSE <<Head(s)>> \o TakeWord(Tail(s))

\* str.split(): the list of maximal runs of non-whitespace characters
RECURSIVE Split(_)
Split(s) == LET t == LStrip(s)
                w == TakeWord(t)
            IN  IF t = <<>> THEN <<>>
                ELSE <<w>> \o Split(SubSeq(t, Len(w) + 1, Len(t)))

\* dict.get(key, "")
MetaGet(m, key) == IF m[key] = Absent THEN Empty ELSE m[key]

\* an exception in flight: its class, its HTTP status (0 when it is not an
\* HTTPException) and the innermost error it reports
Raise(exc, status, cause) ==
    [raised |-> TRUE, exc |-> exc, status |-> status, cause |-> cause]

\* `except Exception as e: raise HTTPException(status_code=400, detail=str(e))`
Except400(e) == Raise("HTTPException", 400, e.cause)

Return(value) == [raised |-> FALSE, status |-> 200, ret |-> value]

(***************************************************************************)
(* Persistence layer: the user table and its unique columns.               *)
(***************************************************************************)
\* unique constraint of the user table on uid and on email
UniqueViolation(S, uid, email) == \E r \in S : r.uid = uid \/ r.email = email

\* prisma.user.find_unique(where={"uid": user_id}): the row or None
find_unique(S, user_id) ==
    IF \E r \in S : r.uid = user_id
    THEN CHOOSE r \in S : r.uid = user_id
    ELSE None

\* lookup of a local user by email: the row or None
get_user_by_email(S, email) ==
    IF \E r \in S : r.email = email
    THEN CHOOSE r \in S : r.email = email
    ELSE None

(***************************************************************************)
(* app/user/schema.py                                                      *)
(***************************************************************************)
SerialKeys == {"_id", "_uid", "first_name", "email", "is_admin"}

\* subscripts the keys "_id", "_uid", ... of its argument; a row has the
\* fields id, uid, first_name, email, is_admin, and None has none
individual_serial(user) ==
    IF SerialKeys \subseteq DOMAIN user
    THEN Return([id |-> ToStr(user["_id"]), uid |-> user["_uid"],
                 first_name |-> user["first_name"], email |-> user["email"],
                 is_admin |-> user["is_admin"]])
    ELSE Raise("TypeError", 0, "not subscriptable")

(***************************************************************************)
(* app/user/user.py                                                        *)
(* Each handler maps the table (and the id counter) and its inputs to the  *)
(* table afterwards and its outcome `out`.                                 *)
(***************************************************************************)
\* variant of create_user: the insert goes through although a unique column
\* is already taken
create_user_unchecked(S, n, auth_id, email, first_name) ==
    [store |-> S \cup {[id |-> n, uid |-> auth_id, email |-> email,
                        first_name |-> first_name, is_admin |-> FALSE]},
     nextId |-> n + 1,
     out |-> Return([id |-> ToStr(n), uid |-> auth_id, email |-> email,
                     first_name |-> first_name])]

create_user(S, n, auth_id, email, first_name) ==
    IF UniqueViolation(S, auth_id, email)
    THEN [store |-> S, nextId |-> n,
          out |-> Except400(Raise("UniqueViolationError", 0, "unique constraint"))]
    ELSE [store |-> S \cup {[id |-> n, uid |-> auth_id, email |-> email,
                             first_name |-> first_name, is_admin |-> FALSE]},
          nextId |-> n + 1,
          out |-> Return([id |-> ToStr(n), uid |-> auth_id, email |-> email,
                          first_name |-> first_name])]

get_user(S, user_id) ==
    LET user == find_unique(S, user_id)
        try == IF user = None
               THEN Raise("HTTPException", 404, "User not found")
               ELSE individual_serial(user)
    IN  [store |-> S, out |-> IF try.raised THEN Except400(try) ELSE try]

\* variant of update_user: the whole body is written to the row
update_user_all_fields(S, user_id, user_data) ==
    LET user == find_unique(S, user_id)
        updated_user == [user EXCEPT !.first_name = user_data.first_name,
                                     !.email = user_data.email,
                                     !.is_admin = user_data.is_admin]
    IN  IF user = None
        THEN [store |-> S, out |-> Except400(individual_serial(None))]
        ELSE IF UniqueViolation(S \ {user}, user.uid, user_data.email)
        THEN [store |-> S,
              out |-> Except400(Raise("UniqueViolationError", 0, "unique constraint"))]
        ELSE LET try == individual_serial(updated_user)
             IN  [store |-> (S \ {user}) \cup {updated_user},
                  out |-> IF try.raised THEN Except400(try) ELSE try]

update_user(S, user_id, user_data) ==
    LET user == find_unique(S, user_id)
        updated_user == [user EXCEPT !.first_name = user_data.first_name,
                                     !.email = user_data.email]
    IN  IF user = None
        THEN \* update() yields None, which individual_serial cannot subscript
             [store |-> S, out |-> Except400(individual_serial(None))]
        ELSE IF UniqueViolation(S \ {user}, user.uid, user_data.email)
        THEN [store |-> S,
              out |-> Except400(Raise("UniqueViolationError", 0, "unique constraint"))]
        ELSE LET try == individual_serial(updated_user)
             IN  [store |-> (S \ {user}) \cup {updated_user},
                  out |-> IF try.raised THEN Except400(try) ELSE try]

\* variant of delete_user: a failure of the provider's deletion fails the
\* request and keeps the row
delete_user_rollback(S, user_id, extOk) ==
    LET deleted_user == find_unique(S, user_id)
    IN  IF deleted_user = None
        THEN [store |-> S, logged |-> TRUE,
              out |-> Except400(Raise("AttributeError", 0, "NoneType has no uid"))]
        ELSE IF ~extOk
        THEN [store |-> S, logged |-> TRUE,
              out |-> Except400(Raise("AuthApiError", 0, "admin delete failed"))]
        ELSE [store |-> S \ {deleted_user}, logged |-> FALSE,
              out |-> Return([message |-> "deleted", uid |-> deleted_user.uid])]

delete_user(S, user_id, extOk) ==
    LET deleted_user == find_unique(S, user_id)
    IN  IF deleted_user = None
        THEN \* delete() yields None; deleted_user.uid raises in the message
             [store |-> S, logged |-> TRUE,
              out |-> Except400(Raise("AttributeError", 0, "NoneType has no uid"))]
        ELSE [store |-> S \ {deleted_user}, logged |-> ~extOk,
              out |-> Return([message |-> "deleted", uid |-> deleted_user.uid])]

(***************************************************************************)
(* app/auth/auth.py                                                        *)
(***************************************************************************)
JoeSchmo == <<"J", "o", "e", " ", "S", "c", "h", "m", "o">>

\* the first-name derivation of create_oauth_user
first_name_of(meta) ==
    LET full_name == MetaGet(meta, "full_name")
        name == MetaGet(meta, "name")
    IN  IF Truthy(full_name) /\ Split(full_name) = <<>>
        THEN Raise("IndexError", 0, "list index out of range")
        ELSE LET first1 == IF Truthy(full_name) THEN Split(full_name)[1] ELSE Empty
             IN  IF ~Truthy(first1) /\ Split(name) = <<>>
                 THEN Raise("IndexError", 0, "list index out of range")
                 ELSE LET first2 == IF ~Truthy(first1) THEN Split(name)[1] ELSE first1
                          first3 == IF ~Truthy(first2)
                                    THEN MetaGet(meta, "given_name") ELSE first2
                          first4 == IF ~Truthy(first3) THEN JoeSchmo ELSE first3
                      IN  Return(first4)

\* variant of create_oauth_user_found: a failed insert is answered with the
\* row that a second lookup finds
create_oauth_user_retry(S, n, user_data, meta, existing_user) ==
    IF existing_user # None
    THEN [store |-> S, nextId |-> n, out |-> Return(existing_user)]
    ELSE LET first_name == first_name_of(meta)
         IN  IF first_name.raised
             THEN [store |-> S, nextId |-> n, out |-> Except400(first_name)]
             ELSE LET new_user == create_user(S, n, user_data.id, user_data.email,
                                              first_name.ret)
                  IN  IF new_user.out.raised
                      THEN IF get_user_by_email(S, user_data.email) # None
                           THEN [new_user EXCEPT !.out =
                                    Return(get_user_by_email(S, user_data.email))]
                           ELSE [new_user EXCEPT !.out = Except400(new_user.out)]
                      ELSE new_user

\* create_oauth_user from the point where the email lookup has returned
create_oauth_user_found(S, n, user_data, meta, existing_user) ==
    IF existing_user # None
    THEN [store |-> S, nextId |-> n, out |-> Return(existing_user)]
    ELSE LET first_name == first_name_of(meta)
         IN  IF first_name.raised
             THEN [store |-> S, nextId |-> n, out |-> Except400(first_name)]
             ELSE LET new_user == create_user(S, n, user_data.id, user_data.email,
                                              first_name.ret)
                  IN  IF new_user.out.raised
                      THEN [new_user EXCEPT !.out = Except400(new_user.out)]
                      ELSE new_user

create_oauth_user(S, n, user_data, meta) ==
    create_oauth_user_found(S, n, user_data, meta,
                            get_user_by_email(S, user_data.email))

\* the identity the provider holds for an email
IdentityOf(email) == CHOOSE i \in Identities : i.email = email

sign_up(S, n, email, first_name, provider) ==
    IF provider = "raises"
    THEN [store |-> S, nextId |-> n,
          out |-> Except400(Raise("AuthApiError", 0, "sign-up failed"))]
    ELSE IF provider = "no_user"
    THEN [store |-> S, nextId |-> n,
          out |-> Except400(Raise("HTTPException", 400, "no user in Supabase Auth"))]
    ELSE LET db_user == create_user(S, n, IdentityOf(email).id, email, first_name)
         IN  IF db_user.out.raised
             THEN [db_user EXCEPT !.out = Except400(db_user.out)]
             ELSE [db_user EXCEPT !.out = Return([message |-> "created",
                                                  user |-> db_user.out.ret])]

\* oauth_callback from the point where create_oauth_user has finished
oauth_callback_done(db_user) ==
    IF db_user.out.raised
    THEN [db_user EXCEPT !.out = Except400(db_user.out)]
    ELSE [db_user EXCEPT !.out = Return([message |-> "authenticated",
                                         user |-> db_user.out.ret])]

oauth_callback(S, n, codeOk, user_data, meta) ==
    IF ~codeOk
    THEN [store |-> S, nextId |-> n,
          out |-> Except400(Raise("AuthApiError", 0, "code exchange failed"))]
    ELSE oauth_callback_done(create_oauth_user(S, n, user_data, meta))

\* supabase.auth.get_user(token): a valid token names the identity it was
\* issued for, any other token raises
ProviderGetUser(token) ==
    IF token \in Uids
    THEN Return(CHOOSE i \in Identities : i.id = token)
    ELSE Raise("AuthApiError", 0, "invalid JWT")

\* variant of get_current_user: the failure is reported like every other
\* handler reports failures
get_current_user_400(token) ==
    LET user == ProviderGetUser(token)
    IN  IF user.raised THEN Except400(user) ELSE user

get_current_user(token) ==
    LET user == ProviderGetUser(token)
    IN  IF user.raised
        THEN Raise("HTTPException", 401, "Invalid authentication credentials")
        ELSE user

(***************************************************************************)
(* State machine.  Requests are served one at a time in Spec; `req` and    *)
(* `resp` hold the last request and its response, `signedIn` the external  *)
(* ids whose sign-up or OAuth callback last succeeded and that were not    *)
(* deleted since.  SpecRace runs OAuth callbacks concurrently: pc and loc  *)
(* are the position and the locals of each callback in flight.             *)
(***************************************************************************)
NoResp == [raised |-> FALSE, status |-> 0, ret |-> None]

NoLoc == [user_data |-> None, meta |-> None, existing_user |-> None, out |-> NoResp]

Init ==
    /\ store = {}
    /\ nextId = 1
    /\ req = [op |-> "none"]
    /\ resp = NoResp
    /\ signedIn = {}
    /\ pc = [p \in Procs |-> "start"]
    /\ loc = [p \in Procs |-> NoLoc]

Bodies == [uid : Uids, first_name : BodyNames, email : Emails, is_admin : BOOLEAN]

SignUp ==
    \E email \in IdentityEmails, first_name \in SignUpNames,
       provider \in {"raises", "no_user", "user"} :
        LET r == sign_up(store, nextId, email, first_name, provider)
        IN  /\ r.nextId <= MaxId + 1
            /\ store' = r.store
            /\ nextId' = r.nextId
            /\ req' = [op |-> "signup", email |-> email, first_name |-> first_name,
                       provider |-> provider]
            /\ resp' = r.out
            /\ signedIn' = IF r.out.raised THEN signedIn
                           ELSE signedIn \cup {IdentityOf(email).id}
            /\ UNCHANGED <<pc, loc>>

\* the code exchange raises, or yields the session of an identity
Sessions == {None} \cup {[user |-> i, user_metadata |-> m] :
                            i \in Identities, m \in Metadatas}

OAuthCallback ==
    \E session \in Sessions :
        LET codeOk == session # None
            user_data == IF codeOk THEN session.user ELSE None
            meta == IF codeOk THEN session.user_metadata ELSE None
            r == oauth_callback(store, nextId, codeOk, user_data, meta)
        IN  /\ r.nextId <= MaxId + 1
            /\ store' = r.store
            /\ nextId' = r.nextId
            /\ req' = [op |-> "callback", user_data |-> user_data, meta |-> meta,
                       codeOk |-> codeOk,
                       existing_user |-> IF codeOk
                                         THEN get_user_by_email(store, user_data.email)
                                         ELSE None]
            /\ resp' = r.out
            /\ signedIn' = IF r.out.raised THEN signedIn
                           ELSE signedIn \cup {user_data.id}
            /\ UNCHANGED <<pc, loc>>

GetUser ==
    \E user_id \in Uids :
        LET r == get_user(store, user_id)
        IN  /\ store' = r.store
            /\ req' = [op |-> "get", user_id |-> user_id,
                       before |-> find_unique(store, user_id)]
            /\ resp' = r.out
            /\ UNCHANGED <<nextId, signedIn, pc, loc>>

UpdateUser ==
    \E user_id \in Uids, user_data \in Bodies :
        LET r == update_user(store, user_id, user_data)
        IN  /\ store' = r.store
            /\ req' = [op |-> "update", user_id |-> user_id, user_data |-> user_data,
                       before |-> find_unique(store, user_id)]
            /\ resp' = r.out
            /\ UNCHANGED <<nextId, signedIn, pc, loc>>

DeleteUser ==
    \E user_id \in Uids, extOk \in BOOLEAN :
        LET r == delete_user(store, user_id, extOk)
        IN  /\ store' = r.store
            /\ req' = [op |-> "delete", user_id |-> user_id, extOk |-> extOk,
                       before |-> find_unique(store, user_id)]
            /\ resp' = r.out
            /\ signedIn' = IF r.out.raised THEN signedIn ELSE signedIn \ {user_id}
            /\ UNCHANGED <<nextId, pc, loc>>

GetCurrentUser ==
    \E token \in Tokens :
        /\ req' = [op |-> "current", token |-> token]
        /\ resp' = get_current_user(token)
        /\ UNCHANGED <<store, nextId, signedIn, pc, loc>>

Next ==
    \/ SignUp
    \/ OAuthCallback
    \/ GetUser
    \/ UpdateUser
    \/ DeleteUser
    \/ GetCurrentUser

Spec == Init /\ [][Next]_vars

(***************************************************************************)
(* Concurrent OAuth callbacks: create_oauth_user awaits the email lookup   *)
(* and then the insert, and other callbacks run between the two.           *)
(***************************************************************************)
CallbackLookup(p) ==
    \E user_data \in Identities, meta \in Metadatas :
        LET existing_user == get_user_by_email(store, user_data.email)
            r == oauth_callback_done(
                     create_oauth_user_found(store, nextId, user_data, meta,
                                             existing_user))
        IN  /\ pc[p] = "start"
            /\ pc' = [pc EXCEPT ![p] = IF existing_user = None THEN "create" ELSE "done"]
            /\ loc' = [loc EXCEPT ![p] =
                          [user_data |-> user_data, meta |-> meta,
                           existing_user |-> existing_user,
                           out |-> IF existing_user = None THEN NoResp ELSE r.out]]
            /\ UNCHANGED <<store, nextId, req, resp, signedIn>>

CallbackCreate(p) ==
    LET r == oauth_callback_done(
                 create_oauth_user_found(store, nextId, loc[p].user_data,
                                         loc[p].meta, loc[p].existing_user))
    IN  /\ pc[p] = "create"
        /\ store' = r.store
        /\ nextId' = r.nextId
        /\ pc' = [pc EXCEPT ![p] = "done"]
        /\ loc' = [loc EXCEPT ![p].out = r.out]
        /\ UNCHANGED <<req, resp, signedIn>>

NextRace ==
    \/ \E p \in Procs : CallbackLookup(p)
    \/ \E p \in Procs : CallbackCreate(p)

SpecRace == Init /\ [][NextRace]_vars

(***************************************************************************)
(* Properties.                                                             *)
(***************************************************************************)
RowsWithEmail(S, email) == {r \in S : r.email = email}

RowsWithUid(S, uid) == {r \in S : r.uid = uid}

\* C1: once an OAuth callback for an identity has been reconciled, a second
\* reconciliation of the same identity, whatever metadata it carries, leaves
\* exactly one row with the identity's email, and both calls return that row
\* with its uid, email and first name unchanged.
C1_TwiceOneRecord ==
    (req.op = "callback" /\ req.codeOk) =>
        \A meta2 \in Metadatas :
            LET second == create_oauth_user(store, nextId, req.user_data, meta2)
                rows == RowsWithEmail(second.store, req.user_data.email)
            IN  /\ Cardinality(rows) = 1
                /\ second.store = store
                /\ ~resp.raised
                /\ ~second.out.raised
                /\ \A row \in rows :
                      /\ second.out.ret.uid = row.uid
                      /\ second.out.ret.email = row.email
                      /\ second.out.ret.first_name = row.first_name
                      /\ resp.ret.user.uid = row.uid
                      /\ resp.ret.user.first_name = row.first_name

\* the first whitespace-separated token of a string, empty when it has none
FirstToken(s) == IF Split(s) = <<>> THEN Empty ELSE Split(s)[1]

\* the first name the priority order full_name, name, given_name, placeholder
\* gives for a metadata mapping
PriorityFirstName(meta) ==
    IF FirstToken(MetaGet(meta, "full_name")) # Empty
    THEN FirstToken(MetaGet(meta, "full_name"))
    ELSE IF FirstToken(MetaGet(meta, "name")) # Empty
    THEN FirstToken(MetaGet(meta, "name"))
    ELSE IF MetaGet(meta, "given_name") # Empty
    THEN MetaGet(meta, "given_name")
    ELSE JoeSchmo

\* C2: a callback that finds no row for the identity's email (and whose
\* external id is not held by another row) creates a row whose first name is
\* the one the priority order full_name, name, given_name, placeholder gives.
C2_NameDerivation ==
    ( /\ req.op = "callback"
      /\ req.codeOk
      /\ req.existing_user = None
      /\ \A r \in RowsWithUid(store, req.user_data.id) :
            r.email = req.user_data.email )
    => /\ ~resp.raised
       /\ resp.ret.user.first_name = PriorityFirstName(req.meta)
       /\ \E r \in store : /\ r.uid = req.user_data.id
                           /\ r.email = req.user_data.email
                           /\ r.first_name = PriorityFirstName(req.meta)

\* C3: get, update and delete of an external id that no row has answer with
\* status 404 and leave the table unchanged.
C3_NotFound404 ==
    [][ (req'.op \in {"get", "update", "delete"} /\ req'.before = None)
        => (resp'.raised /\ resp'.status = 404 /\ store' = store) ]_vars

\* C4: deleting an existing user removes its row and answers with success
\* whether the provider's deletion succeeds or raises; the row stays removed
\* and a get of the same external id fails as not found.
C4_DeleteRemoves ==
    [][ (req'.op = "delete" /\ req'.before # None)
        => /\ ~resp'.raised
           /\ resp'.status = 200
           /\ store' = store \ {req'.before}
           /\ RowsWithUid(store', req'.user_id) = {}
           /\ get_user(store', req'.user_id).out.raised
           /\ get_user(store', req'.user_id).out.cause = "User not found" ]_vars

C4_Witness ==
    /\ req.op = "delete"
    /\ req.before # None
    /\ ~req.extOk
    /\ ~resp.raised
    /\ RowsWithUid(store, req.user_id) = {}
    /\ store # {}

\* C5: an update changes at most first_name and email of the row addressed by
\* the path's external id: its is_admin, uid and internal id keep their values
\* whatever uid and is_admin the body carries, and every other row is unchanged.
C5_UpdateFrame ==
    [][ req'.op = "update"
        => IF req'.before = None
           THEN store' = store
           ELSE /\ req'.before \in store
                /\ store' \ RowsWithUid(store', req'.user_id) = store \ {req'.before}
                /\ Cardinality(RowsWithUid(store', req'.user_id)) = 1
                /\ \A u \in RowsWithUid(store', req'.user_id) :
                      /\ u.id = req'.before.id
                      /\ u.uid = req'.before.uid
                      /\ u.is_admin = req'.before.is_admin
                      /\ \/ u = req'.before
                         \/ /\ u.first_name = req'.user_data.first_name
                            /\ u.email = req'.user_data.email ]_vars

C5_Witness ==
    /\ req.op = "update"
    /\ req.before # None
    /\ req.user_data.is_admin
    /\ req.user_data.uid # req.user_id
    /\ \E u \in store : /\ u.uid = req.user_id
                        /\ u.first_name = req.user_data.first_name
                        /\ u.email = req.user_data.email
                        /\ u.first_name # req.before.first_name
                        /\ u.email # req.before.email
                        /\ ~u.is_admin
    /\ Cardinality(store) = 2

Unique(S) == \A r1, r2 \in S : (r1.email = r2.email \/ r1.uid = r2.uid) => r1 = r2

\* C6: a sign-up whose create_user meets an email or an external id that a row
\* already has ends with status 400 and adds no row, and after every operation
\* no two rows share an email or an external id.
C6_Uniqueness ==
    [][ /\ Unique(store')
        /\ ( /\ req'.op = "signup"
             /\ req'.provider = "user"
             /\ UniqueViolation(store, IdentityOf(req'.email).id, req'.email) )
           => (resp'.raised /\ resp'.status = 400 /\ store' = store) ]_vars

C6_Witness ==
    /\ req.op = "signup"
    /\ req.provider = "user"
    /\ resp.raised
    /\ resp.status = 400
    /\ resp.cause = "unique constraint"
    /\ Cardinality(store) = 2

\* C7: every external id whose sign-up or callback last succeeded and that was
\* not deleted since has exactly one row, and the row a successful callback
\* returns carries the external id of the identity it was run for.
C7_OneToOne ==
    /\ \A u \in signedIn : Cardinality(RowsWithUid(store, u)) = 1
    /\ (req.op = "callback" /\ ~resp.raised)
       => resp.ret.user.uid = req.user_data.id

\* C8: when callbacks for one brand-new identity have all looked the email up
\* before any of them inserts, at most one row is created for the identity:
\* the rows are unique by email and by external id, every insert that
\* succeeded is a row of the table, at most one of the racing callbacks
\* succeeds, and a callback that fails has ended with status 400.
C8_RaceOneRecord ==
    /\ \A i \in Identities : /\ Cardinality(RowsWithEmail(store, i.email)) <= 1
                             /\ Cardinality(RowsWithUid(store, i.id)) <= 1
    /\ nextId - 1 = Cardinality(store)
    /\ \A p \in Procs :
          (pc[p] = "done" /\ loc[p].out.raised)
          => /\ loc[p].out.status = 400
             /\ loc[p].out.exc = "HTTPException"
    /\ \A p, q \in Procs :
          ( /\ p # q
            /\ pc[p] = "done" /\ pc[q] = "done"
            /\ loc[p].user_data = loc[q].user_data
            /\ loc[p].existing_user = None /\ loc[q].existing_user = None )
          => (loc[p].out.raised \/ loc[q].out.raised)

C8_Witness ==
    \E p, q \in Procs :
        /\ p # q
        /\ pc[p] = "done" /\ pc[q] = "done"
        /\ loc[p].user_data = loc[q].user_data
        /\ loc[p].existing_user = None /\ loc[q].existing_user = None
        /\ ~loc[p].out.raised
        /\ loc[q].out.raised
        /\ loc[q].out.status = 400
        /\ loc[q].out.cause = "unique constraint"
        /\ Cardinality(RowsWithUid(store, loc[p].user_data.id)) = 1

\* C9: after a sign-up has created the row of external id X, the get-user
\* endpoint called with X succeeds with {id, uid, first_name, email, is_admin}
\* where uid is X and email and first_name are those given at creation.
C9_GetAfterCreate ==
    (req.op = "signup" /\ ~resp.raised) =>
        LET got == get_user(store, resp.ret.user.uid).out
        IN  /\ ~got.raised
            /\ got.status = 200
            /\ DOMAIN got.ret = {"id", "uid", "first_name", "email", "is_admin"}
            /\ got.ret.uid = IdentityOf(req.email).id
            /\ got.ret.email = req.email
            /\ got.ret.first_name = req.first_name

\* C10: get_current_user with a token the provider cannot resolve ends with
\* status 401, a token that resolves is answered with the provider's identity
\* whether or not a row exists for it, and the table is never changed.
C10_CurrentUser ==
    [][ req'.op = "current"
        => /\ store' = store
           /\ nextId' = nextId
           /\ IF req'.token \in Uids
              THEN /\ ~resp'.raised
                   /\ resp'.ret \in Identities
                   /\ resp'.ret.id = req'.token
              ELSE /\ resp'.raised
                   /\ resp'.exc = "HTTPException"
                   /\ resp'.status = 401 ]_vars

C10_Witness ==
    /\ req.op = "current"
    /\ req.token \notin Uids
    /\ resp.raised
    /\ resp.status = 401
    /\ store # {}

====
